---- MODULE Spec2Model ----
(***************************************************************************)
(* Model of the floating chat window registry, ChatProvider in             *)
(* src/contexts/ChatContext.tsx.                                           *)
(*                                                                         *)
(* The provider is a React component.  Its state is chatWindows,           *)
(* closedChats and lastSeenMessageIds (useState) and the authenticated     *)
(* user (useAuth).  The subscription effect (useEffect with dependencies   *)
(* [user, chatWindows, closedChats]) runs after a render in which one of   *)
(* its dependencies changed: it first runs the cleanup of the previous     *)
(* run, then subscribes again.  Every callback the effect registers is a   *)
(* closure over the values of the render the effect belongs to, so the     *)
(* handlers read chatWindows, closedChats and lastSeenMessageIds as they   *)
(* were when the effect ran, while the functional updates                  *)
(* (setX(prev => ...)) act on the current state.  React runs effects       *)
(* asynchronously after the state change that made them due, and the       *)
(* database delivers snapshots asynchronously, so the effect re-run is a   *)
(* step of its own.                                                        *)
(***************************************************************************)
EXTENDS Integers, Sequences, FiniteSets, TLC

(***************************************************************************)
(* Bounds of the model.                                                    *)
(***************************************************************************)
MaxWindows == 2      \* longest window list explored
MaxUnread == 2       \* largest unreadCount explored
MaxMsg == 2          \* messages sent in all conversations together
MaxSubs == 2         \* live message listeners of all conversations together
MaxPending == 2      \* message handlers awaiting the profile lookup
InnerWidth == 350    \* window.innerWidth of the viewport
InnerHeight == 410   \* window.innerHeight of the viewport
WideInnerWidth == 400   \* window.innerWidth of a viewport that floors no position
WideInnerHeight == 480  \* window.innerHeight of that viewport

(***************************************************************************)
(* Constants of the program.                                               *)
(***************************************************************************)
WindowWidth == 320
WindowHeight == 400
CascadeStep == 20

(***************************************************************************)
(* User ids.  Me is the uid of the account that signs in; Peers are the    *)
(* counterparts.  UidOrder is the lexicographic order of the uid strings.  *)
(***************************************************************************)
None == "none"
Me == "m"
Peers == {"a", "z"}
UidOrder == <<"a", "m", "z">>
Rank(u) == CHOOSE i \in 1..Len(UidOrder) : UidOrder[i] = u

\* [uid1, uid2].sort().join('_')
ChatId(x, y) == IF Rank(x) <= Rank(y) THEN <<x, y>> ELSE <<y, x>>

Chats == {ChatId(Me, p) : p \in Peers}

\* (chatData.participants as string[]).find((id) => id !== user.uid)
OtherParticipant(c, uid) ==
  IF c[1] # uid THEN c[1] ELSE IF c[2] # uid THEN c[2] ELSE None

Max(a, b) == IF a >= b THEN a ELSE b

(***************************************************************************)
(* Profiles.  A UserProfile is modelled by the fields the registry sets;   *)
(* the two timestamps (Timestamp.now()) are left out.  "" is the empty or  *)
(* absent string, which JavaScript's || treats as false.                   *)
(***************************************************************************)
OrStr(a, b) == IF a = "" THEN b ELSE a

\* The sender name and photo embedded in a message of sender u
\* (messageData.senderName, messageData.senderPhotoURL); z sends no photo.
SenderName(u) == IF u = "a" THEN "msgname_a" ELSE IF u = "z" THEN "msgname_z" ELSE "msgname_m"
SenderPhotoURL(u) == IF u = "a" THEN "msgphoto_a" ELSE ""

\* What getDoc(doc(db, 'users', senderId)) can produce: a document with all
\* its fields set, a document with none of them set, no document, a fault.
FullDoc(u) ==
  [displayName |-> IF u = "a" THEN "stored_a" ELSE "stored_z",
   username |-> IF u = "a" THEN "handle_a" ELSE "handle_z",
   photoURL |-> "stored_photo", email |-> "stored_email",
   isAgeVerified |-> TRUE, isVerified |-> TRUE,
   role |-> "creator", status |-> "suspended"]
BareDoc ==
  [displayName |-> "", username |-> "", photoURL |-> "", email |-> "",
   isAgeVerified |-> FALSE, isVerified |-> FALSE, role |-> "", status |-> ""]
LookupResults(u) ==
  {[kind |-> "found", doc |-> FullDoc(u)], [kind |-> "found", doc |-> BareDoc],
   [kind |-> "missing", doc |-> BareDoc], [kind |-> "error", doc |-> BareDoc]}

\* The profile built when senderDoc.exists()
ProfileFromDoc(senderId, senderProfile) ==
  [uid |-> senderId,
   displayName |-> OrStr(senderProfile.displayName, SenderName(senderId)),
   username |-> OrStr(senderProfile.username, senderId),
   photoURL |-> OrStr(OrStr(senderProfile.photoURL, SenderPhotoURL(senderId)), ""),
   email |-> OrStr(senderProfile.email, ""),
   isAgeVerified |-> (senderProfile.isAgeVerified \/ FALSE),
   isVerified |-> (senderProfile.isVerified \/ FALSE),
   role |-> OrStr(senderProfile.role, "user"),
   status |-> OrStr(senderProfile.status, "active")]

\* The profile built when the document does not exist, and in the catch block
ProfileFromMessage(senderId) ==
  [uid |-> senderId,
   displayName |-> SenderName(senderId),
   username |-> SenderName(senderId),
   photoURL |-> OrStr(SenderPhotoURL(senderId), ""),
   email |-> "",
   isAgeVerified |-> FALSE,
   isVerified |-> FALSE,
   role |-> "user",
   status |-> "active"]

\* SenderUser with a catch block that leaves role and status unset
SenderUserBareCatch(senderId, res) ==
  IF res.kind = "found" THEN ProfileFromDoc(senderId, res.doc)
  ELSE IF res.kind = "missing" THEN ProfileFromMessage(senderId)
  ELSE [ProfileFromMessage(senderId) EXCEPT !.role = "", !.status = ""]

\* try { getDoc ... exists() ? ... : ... } catch { ... }
SenderUser(senderId, res) ==
  IF res.kind = "found" THEN ProfileFromDoc(senderId, res.doc)
  ELSE ProfileFromMessage(senderId)

\* The profile a caller of openChat passes for user u
CallerProfile(u) ==
  [uid |-> u, displayName |-> IF u = "a" THEN "shown_a" ELSE "shown_z",
   username |-> u, photoURL |-> "", email |-> "",
   isAgeVerified |-> FALSE, isVerified |-> FALSE,
   role |-> "user", status |-> "active"]

(***************************************************************************)
(* State.                                                                  *)
(***************************************************************************)
VARIABLES
  user,                \* useAuth().user: None or the signed-in uid
  chatWindows,         \* useState<ChatWindow[]>
  closedChats,         \* useState<Set<string>>
  lastSeenMessageIds,  \* useState<Record<string, string>>; 0 is "no entry"
  effectDue,           \* a dependency of the subscription effect changed since it ran
  closure,             \* the render values the callbacks of the running effect read
  chatsLive,           \* the conversation-set listener of the running effect is subscribed
  chatsDue,            \* it has a snapshot to deliver
  subs,                \* per conversation, the live message listeners of the running effect
  due,                 \* per conversation, how many of them have a snapshot to deliver
  pending,             \* message handlers suspended at await getDoc, by sender and message id
  reading,             \* markAsRead calls past the local update, before the remote part
  convs,               \* conversation documents of the database with Me as participant
  latest,              \* per conversation its latest message (docs[0]); id 0 is "no message"
  unreadRemote,        \* per conversation: it has messages of the peer with read == false
  typing,              \* conversations whose document has a typing status set
  suppressed,          \* history: users closed with closeChat and not opened with openChat since
  applied,             \* history: per conversation, the changes made to the window list for
                       \* its latest message (window created or unreadCount incremented), up to 2
  readHist,            \* history: per user, "zeroed" once markAsRead has set a positive
                       \* unreadCount to 0, "kept" once its remote part has then failed
  stored,              \* localStorage item 'closedChats': NoItem or the text of a JSON array
  persistDue,          \* closedChats changed since the persist effect ran
  loaded,              \* history: the set this provider's closedChats was initialised with
  viewport,            \* window.innerWidth and window.innerHeight
  hook                 \* the last call of useChat and its outcome

reactVars == <<user, chatWindows, closedChats, lastSeenMessageIds>>
effectVars == <<effectDue, closure, chatsLive, chatsDue, subs, due>>
asyncVars == <<pending, reading>>
dbVars == <<convs, latest, unreadRemote, typing>>
histVars == <<suppressed, applied, readHist>>
envVars == <<stored, persistDue, loaded, viewport, hook>>
vars == <<reactVars, effectVars, asyncVars, dbVars, histVars, envVars>>

(***************************************************************************)
(* The window list and the updaters passed to setChatWindows.              *)
(***************************************************************************)
HasWindow(ws, uid) == \E i \in 1..Len(ws) : ws[i].user.uid = uid
WindowsOf(ws, uid) == {i \in 1..Len(ws) : ws[i].user.uid = uid}
WindowIds(ws) == {ws[i].user.uid : i \in 1..Len(ws)}

\* DefaultPosition without the floor at 0
DefaultPositionUnclamped(n) ==
  [x |-> viewport.innerWidth - WindowWidth - (n * CascadeStep),
   y |-> viewport.innerHeight - WindowHeight - (n * CascadeStep)]

\* The cascading default position for a list of n windows
DefaultPosition(n) ==
  [x |-> Max(0, viewport.innerWidth - WindowWidth - (n * CascadeStep)),
   y |-> Max(0, viewport.innerHeight - WindowHeight - (n * CascadeStep))]

\* prev => [...prev, {id: senderId, user: senderUser, isMinimized: true, ...}]
AppendAutoWindow(prev, senderId, senderUser) ==
  Append(prev, [id |-> senderId, user |-> senderUser, isMinimized |-> TRUE,
                position |-> DefaultPosition(Len(prev)), unreadCount |-> 1])

\* prev => prev.map(w => w.user.uid === senderId ? {...w, unreadCount: (w.unreadCount || 0) + 1} : w)
IncrementUnread(prev, senderId) ==
  [i \in 1..Len(prev) |->
     IF prev[i].user.uid = senderId
     THEN [prev[i] EXCEPT !.unreadCount = prev[i].unreadCount + 1]
     ELSE prev[i]]

\* The updater of openChat
OpenChatUpdate(prev, u) ==
  IF HasWindow(prev, u.uid)
  THEN [i \in 1..Len(prev) |->
          IF prev[i].user.uid = u.uid
          THEN [prev[i] EXCEPT !.isMinimized = FALSE, !.unreadCount = 0]
          ELSE prev[i]]
  ELSE Append(prev, [id |-> u.uid, user |-> u, isMinimized |-> FALSE,
                     position |-> DefaultPosition(Len(prev)), unreadCount |-> 0])

\* CloseChatUpdate comparing the window id with the profile's display name
CloseChatUpdateByName(prev, userId) ==
  SelectSeq(prev, LAMBDA w : w.user.displayName # userId)

\* prev.filter(w => w.user.uid !== userId)
CloseChatUpdate(prev, userId) == SelectSeq(prev, LAMBDA w : w.user.uid # userId)

\* MinimizeUpdate that sets isMinimized instead of toggling it
MinimizeUpdateCollapse(prev, userId) ==
  [i \in 1..Len(prev) |->
     IF prev[i].user.uid = userId
     THEN [prev[i] EXCEPT !.isMinimized = TRUE]
     ELSE prev[i]]

\* The updater of minimizeChat
MinimizeUpdate(prev, userId) ==
  [i \in 1..Len(prev) |->
     IF prev[i].user.uid = userId
     THEN [prev[i] EXCEPT !.isMinimized = ~prev[i].isMinimized]
     ELSE prev[i]]

\* The updater of updatePosition
PositionUpdate(prev, userId, position) ==
  [i \in 1..Len(prev) |->
     IF prev[i].user.uid = userId
     THEN [prev[i] EXCEPT !.position = position]
     ELSE prev[i]]

\* The updater of markAsRead
MarkReadUpdate(prev, userId) ==
  [i \in 1..Len(prev) |->
     IF prev[i].user.uid = userId
     THEN [prev[i] EXCEPT !.unreadCount = 0]
     ELSE prev[i]]

Positions == {[x |-> 5, y |-> 7]}

\* A suspended handler: its sender, its message id, and (history) whether at
\* its delivery the message was unprocessed, the sender not closed and without window
PendingKeys == Peers \X (1..MaxMsg) \X BOOLEAN
RECURSIVE SumOver(_, _)
SumOver(f, S) ==
  IF S = {} THEN 0
  ELSE LET k == CHOOSE k \in S : TRUE IN f[k] + SumOver(f, S \ {k})
PendingCount == SumOver(pending, PendingKeys)

\* What a callback registered by the effect captures of the render
Capture ==
  [user |-> user, windowIds |-> WindowIds(chatWindows),
   closedChats |-> closedChats, lastSeenMessageIds |-> lastSeenMessageIds]

(***************************************************************************)
(* The durable copy of closedChats: the localStorage item 'closedChats'.   *)
(* A text is modelled by the sequence of its tokens, so that the empty     *)
(* string, the text "[]" and an absent item are three different values.    *)
(***************************************************************************)
NoItem == [present |-> FALSE, text |-> <<>>]
Item(text) == [present |-> TRUE, text |-> text]

\* Array.from(closedChats): the members in the insertion order of the Set,
\* which the model's set does not record; every order is a possible outcome.
RECURSIVE ArrayFrom(_)
ArrayFrom(S) ==
  IF S = {} THEN {<<>>}
  ELSE UNION {{Append(arr, e) : arr \in ArrayFrom(S \ {e})} : e \in S}

\* JSON.stringify of an array of strings, and JSON.parse of such a text
JsonStringify(arr) == <<"[">> \o arr \o <<"]">>
JsonParse(text) == SubSeq(text, 2, Len(text) - 1)

\* new Set(array)
NewSet(arr) == {arr[i] : i \in 1..Len(arr)}

\* if (stored) return new Set(JSON.parse(stored)); return new Set()
LoadClosed(item) ==
  IF item.present /\ item.text # <<>> THEN NewSet(JsonParse(item.text)) ELSE {}

(***************************************************************************)
(* useChat: the context is null outside a provider (createContext(null)),  *)
(* and the value the provider passes inside one.                           *)
(***************************************************************************)
Operations == {"openChat", "closeChat", "minimizeChat", "updatePosition", "markAsRead"}
NullContext == [isNull |-> TRUE, chatWindows |-> <<>>, operations |-> {}]
ProviderValue == [isNull |-> FALSE, chatWindows |-> chatWindows, operations |-> Operations]

\* UseChat without the test of the context
UseChatUnchecked(context) == [threw |-> FALSE, message |-> "", value |-> context]

UseChat(context) ==
  IF context.isNull
  THEN [threw |-> TRUE, message |-> "useChat must be used within a ChatProvider",
        value |-> NullContext]
  ELSE [threw |-> FALSE, message |-> "", value |-> context]

NoCall == [where |-> "none", result |-> [threw |-> FALSE, message |-> "", value |-> NullContext]]

Init ==
  /\ viewport = [innerWidth |-> InnerWidth, innerHeight |-> InnerHeight]
  /\ user = None
  /\ chatWindows = <<>>
  /\ closedChats = {}
  /\ lastSeenMessageIds = [c \in Chats |-> 0]
  /\ effectDue = TRUE
  /\ closure = [user |-> None, windowIds |-> {}, closedChats |-> {},
                lastSeenMessageIds |-> [c \in Chats |-> 0]]
  /\ chatsLive = FALSE
  /\ chatsDue = FALSE
  /\ subs = [c \in Chats |-> 0]
  /\ due = [c \in Chats |-> 0]
  /\ pending = [k \in PendingKeys |-> 0]
  /\ reading = {}
  /\ convs = {}
  /\ latest = [c \in Chats |-> [id |-> 0, senderId |-> None]]
  /\ unreadRemote = [c \in Chats |-> FALSE]
  /\ typing = {}
  /\ suppressed = {}
  /\ applied = [c \in Chats |-> 0]
  /\ readHist = [u \in Peers |-> "none"]
  /\ stored = NoItem
  /\ persistDue = TRUE
  /\ loaded = {}
  /\ hook = NoCall

(***************************************************************************)
(* Authentication: useAuth() yields another user.                          *)
(***************************************************************************)
SignIn ==
  /\ user = None
  /\ user' = Me
  /\ effectDue' = TRUE
  /\ UNCHANGED <<chatWindows, closedChats, lastSeenMessageIds>>
  /\ UNCHANGED <<closure, chatsLive, chatsDue, subs, due>>
  /\ UNCHANGED <<asyncVars, dbVars, histVars>>
  /\ UNCHANGED envVars

SignOut ==
  /\ user # None
  /\ user' = None
  /\ effectDue' = TRUE
  /\ UNCHANGED <<chatWindows, closedChats, lastSeenMessageIds>>
  /\ UNCHANGED <<closure, chatsLive, chatsDue, subs, due>>
  /\ UNCHANGED <<asyncVars, dbVars, histVars>>
  /\ UNCHANGED envVars

(***************************************************************************)
(* The subscription effect: the cleanup of the previous run               *)
(* (chatUnsubscribes.forEach(unsub => unsub())), then, if a user is        *)
(* signed in, the subscription to the conversation set.                    *)
(***************************************************************************)
\* RunEffect with a cleanup that releases only the conversation-set listener
RunEffectChatsOnly ==
  /\ effectDue
  /\ effectDue' = FALSE
  /\ closure' = Capture
  /\ chatsLive' = (user # None)
  /\ chatsDue' = (user # None)
  /\ UNCHANGED <<subs, due>>
  /\ UNCHANGED <<reactVars, asyncVars, dbVars, histVars>>
  /\ UNCHANGED envVars

RunEffect ==
  /\ effectDue
  /\ effectDue' = FALSE
  /\ subs' = [c \in Chats |-> 0]
  /\ due' = [c \in Chats |-> 0]
  /\ closure' = Capture
  /\ chatsLive' = (user # None)
  /\ chatsDue' = (user # None)
  /\ UNCHANGED <<reactVars, asyncVars, dbVars, histVars>>
  /\ UNCHANGED envVars

\* The conversations a conversation-set snapshot subscribes to
Subscribed(cl, cs) ==
  {c \in cs : /\ OtherParticipant(c, cl.user) # None
              /\ OtherParticipant(c, cl.user) \notin cl.closedChats}

\* onSnapshot(chatsQuery, (chatsSnapshot) => chatsSnapshot.forEach(...))
OnChatsSnapshot ==
  /\ chatsLive
  /\ chatsDue
  /\ SumOver(subs, Chats) + Cardinality(Subscribed(closure, convs)) <= MaxSubs
  /\ chatsDue' = FALSE
  /\ subs' = [c \in Chats |-> IF c \in Subscribed(closure, convs) THEN subs[c] + 1 ELSE subs[c]]
  /\ due' = [c \in Chats |-> IF c \in Subscribed(closure, convs) THEN due[c] + 1 ELSE due[c]]
  /\ UNCHANGED <<effectDue, closure, chatsLive>>
  /\ UNCHANGED <<reactVars, asyncVars, dbVars, histVars>>
  /\ UNCHANGED envVars

(***************************************************************************)
(* The message-stream handler, up to its await or its end.                 *)
(***************************************************************************)
\* IsOwnMessage comparing the sender id with the user's display name
IsOwnMessageByName(cl, msg) == msg.senderId = SenderName(cl.user)

\* if (senderId === user.uid) return
IsOwnMessage(cl, msg) == msg.senderId = cl.user

\* if (lastSeenMessageIds[chatId] === latestDoc.id) return
AlreadySeen(cl, c, msg) == cl.lastSeenMessageIds[c] = msg.id

\* chatWindows.find(window => window.user.uid === senderId)
ExistingWindow(cl, senderId) == senderId \in cl.windowIds

\* The handler returns before it changes anything
Ignored(cl, c, msg) == msg.id = 0 \/ IsOwnMessage(cl, msg) \/ AlreadySeen(cl, c, msg)

Bump(n) == IF n < 2 THEN n + 1 ELSE 2

\* The message is unprocessed, its sender is not closed and has no window
FreshArrival(c, msg) ==
  /\ lastSeenMessageIds[c] # msg.id
  /\ msg.senderId \notin closedChats
  /\ ~HasWindow(chatWindows, msg.senderId)

OnMessagesSnapshot(c) ==
  LET msg == latest[c] IN
  /\ subs[c] > 0
  /\ due[c] > 0
  /\ due' = [due EXCEPT ![c] = due[c] - 1]
  /\ IF Ignored(closure, c, msg)
     THEN UNCHANGED <<reactVars, effectDue, pending, applied>>
     ELSE /\ lastSeenMessageIds' = [lastSeenMessageIds EXCEPT ![c] = msg.id]
          /\ IF ~ExistingWindow(closure, msg.senderId)
             THEN /\ PendingCount < MaxPending
                  /\ pending' = [pending EXCEPT ![<<msg.senderId, msg.id, FreshArrival(c, msg)>>] = @ + 1]
                  /\ UNCHANGED <<chatWindows, effectDue, applied>>
             ELSE /\ \A i \in WindowsOf(chatWindows, msg.senderId) :
                        chatWindows[i].unreadCount < MaxUnread
                  /\ chatWindows' = IncrementUnread(chatWindows, msg.senderId)
                  /\ effectDue' = TRUE
                  /\ applied' = IF HasWindow(chatWindows, msg.senderId)
                                THEN [applied EXCEPT ![c] = Bump(@)] ELSE applied
                  /\ UNCHANGED pending
          /\ UNCHANGED <<user, closedChats>>
  /\ UNCHANGED <<closure, chatsLive, chatsDue, subs>>
  /\ UNCHANGED <<reading, dbVars, suppressed, readHist>>
  /\ UNCHANGED envVars

\* The handler resumes after await getDoc(...) and appends the window
ProfileResolved(k, res) ==
  LET c == ChatId(Me, k[1]) IN
  /\ pending[k] > 0
  /\ Len(chatWindows) < MaxWindows
  /\ pending' = [pending EXCEPT ![k] = @ - 1]
  /\ chatWindows' = AppendAutoWindow(chatWindows, k[1], SenderUser(k[1], res))
  /\ effectDue' = TRUE
  /\ applied' = IF latest[c].id = k[2] THEN [applied EXCEPT ![c] = Bump(@)] ELSE applied
  /\ UNCHANGED <<user, closedChats, lastSeenMessageIds>>
  /\ UNCHANGED <<closure, chatsLive, chatsDue, subs, due>>
  /\ UNCHANGED <<reading, dbVars, suppressed, readHist>>
  /\ UNCHANGED envVars

(***************************************************************************)
(* The operations of the context.                                          *)
(***************************************************************************)
OpenChat(u) ==
  /\ HasWindow(chatWindows, u) \/ Len(chatWindows) < MaxWindows
  /\ chatWindows' = OpenChatUpdate(chatWindows, CallerProfile(u))
  /\ effectDue' = TRUE
  /\ suppressed' = suppressed \ {u}
  /\ UNCHANGED <<user, closedChats, lastSeenMessageIds>>
  /\ UNCHANGED <<closure, chatsLive, chatsDue, subs, due>>
  /\ UNCHANGED <<asyncVars, dbVars, applied, readHist>>
  /\ UNCHANGED envVars

\* new Set([...Array.from(prev), userId])
CloseChatClosed(prev, userId) == prev \cup {userId}

\* setDoc(chatRef, { typing: null }, { merge: true }), issued only if (user);
\* a failed write is caught and logged.
TypingWrites == {"ok", "failed"}
ClearTyping(t, uid, userId, w) ==
  IF uid # None /\ w = "ok" THEN t \ {ChatId(uid, userId)} ELSE t

CloseChat(userId, w) ==
  /\ chatWindows' = CloseChatUpdate(chatWindows, userId)
  /\ closedChats' = CloseChatClosed(closedChats, userId)
  /\ effectDue' = TRUE
  /\ typing' = ClearTyping(typing, user, userId, w)
  /\ chatsDue' = (chatsDue \/ (chatsLive /\ typing' # typing))
  /\ suppressed' = suppressed \cup {userId}
  /\ UNCHANGED <<user, lastSeenMessageIds>>
  /\ UNCHANGED <<closure, chatsLive, subs, due>>
  /\ UNCHANGED <<asyncVars, convs, latest, unreadRemote, applied, readHist>>
  /\ persistDue' = TRUE
  /\ UNCHANGED <<stored, loaded, viewport, hook>>

MinimizeChat(userId) ==
  /\ chatWindows' = MinimizeUpdate(chatWindows, userId)
  /\ effectDue' = TRUE
  /\ UNCHANGED <<user, closedChats, lastSeenMessageIds>>
  /\ UNCHANGED <<closure, chatsLive, chatsDue, subs, due>>
  /\ UNCHANGED <<asyncVars, dbVars, histVars>>
  /\ UNCHANGED envVars

UpdatePosition(userId, position) ==
  /\ chatWindows' = PositionUpdate(chatWindows, userId, position)
  /\ effectDue' = TRUE
  /\ UNCHANGED <<user, closedChats, lastSeenMessageIds>>
  /\ UNCHANGED <<closure, chatsLive, chatsDue, subs, due>>
  /\ UNCHANGED <<asyncVars, dbVars, histVars>>
  /\ UNCHANGED envVars

\* markAsRead up to its first await: the local update
MarkAsRead(userId) ==
  /\ userId \notin reading
  /\ chatWindows' = MarkReadUpdate(chatWindows, userId)
  /\ effectDue' = TRUE
  /\ reading' = reading \cup {userId}
  /\ readHist' = [readHist EXCEPT ![userId] =
                    IF \E i \in WindowsOf(chatWindows, userId) : chatWindows[i].unreadCount > 0
                    THEN "zeroed" ELSE "none"]
  /\ UNCHANGED <<user, closedChats, lastSeenMessageIds>>
  /\ UNCHANGED <<closure, chatsLive, chatsDue, subs, due>>
  /\ UNCHANGED <<pending, dbVars, suppressed, applied>>
  /\ UNCHANGED envVars

\* The remote part of markAsRead: skipped without auth.currentUser; getDocs
\* or batch.commit() may throw, which is caught and logged; the commit is
\* issued only if the snapshot is not empty.
RemoteResults == {"ok", "queryFailed", "commitFailed"}
Committed(uid, c, r) == uid # None /\ r = "ok" /\ unreadRemote[c]

\* MarkAsReadRemote with a catch block that undoes the local update
MarkAsReadRemoteRollback(userId, r) ==
  LET c == ChatId(Me, userId) IN
  /\ userId \in reading
  /\ reading' = reading \ {userId}
  /\ IF Committed(user, c, r)
     THEN /\ unreadRemote' = [unreadRemote EXCEPT ![c] = FALSE]
          /\ due' = [due EXCEPT ![c] = subs[c]]
     ELSE UNCHANGED <<unreadRemote, due>>
  /\ IF user # None /\ r # "ok"
     THEN /\ chatWindows' = IncrementUnread(chatWindows, userId)
          /\ effectDue' = TRUE
     ELSE UNCHANGED <<chatWindows, effectDue>>
  /\ readHist' = [readHist EXCEPT ![userId] =
                    IF @ = "zeroed" /\ r # "ok" THEN "kept" ELSE "none"]
  /\ UNCHANGED <<user, closedChats, lastSeenMessageIds, closure, chatsLive, chatsDue, subs>>
  /\ UNCHANGED <<pending, convs, latest, typing, suppressed, applied>>
  /\ UNCHANGED envVars

MarkAsReadRemote(userId, r) ==
  LET c == ChatId(Me, userId) IN
  /\ userId \in reading
  /\ reading' = reading \ {userId}
  /\ IF Committed(user, c, r)
     THEN /\ unreadRemote' = [unreadRemote EXCEPT ![c] = FALSE]
          /\ due' = [due EXCEPT ![c] = subs[c]]
     ELSE UNCHANGED <<unreadRemote, due>>
  /\ readHist' = [readHist EXCEPT ![userId] =
                    IF @ = "zeroed" /\ r # "ok" THEN "kept" ELSE "none"]
  /\ UNCHANGED <<reactVars, effectDue, closure, chatsLive, chatsDue, subs>>
  /\ UNCHANGED <<pending, convs, latest, typing, suppressed, applied>>
  /\ UNCHANGED envVars

(***************************************************************************)
(* The database changes behind the two live feeds.                         *)
(***************************************************************************)
\* A message of sender s becomes the latest of the conversation with peer p
NewMessage(p, s) ==
  LET c == ChatId(Me, p) IN
  /\ SumOver([d \in Chats |-> latest[d].id], Chats) < MaxMsg
  /\ latest' = [latest EXCEPT ![c] = [id |-> latest[c].id + 1, senderId |-> s]]
  /\ convs' = convs \cup {c}
  /\ chatsDue' = (chatsDue \/ (chatsLive /\ c \notin convs))
  /\ due' = [due EXCEPT ![c] = subs[c]]
  /\ unreadRemote' = [unreadRemote EXCEPT ![c] = (@ \/ s = p)]
  /\ applied' = [applied EXCEPT ![c] = 0]
  /\ UNCHANGED <<reactVars, effectDue, closure, chatsLive, subs>>
  /\ UNCHANGED <<asyncVars, typing, suppressed, readHist>>
  /\ UNCHANGED envVars

\* The peer starts typing: the conversation document changes
PeerTyping(p) ==
  LET c == ChatId(Me, p) IN
  /\ c \in convs
  /\ c \notin typing
  /\ typing' = typing \cup {c}
  /\ chatsDue' = (chatsDue \/ chatsLive)
  /\ UNCHANGED <<reactVars, effectDue, closure, chatsLive, subs, due>>
  /\ UNCHANGED <<asyncVars, convs, latest, unreadRemote, histVars>>
  /\ UNCHANGED envVars

(***************************************************************************)
(* The persist effect (useEffect with dependency [closedChats]), and the   *)
(* provider discarded and a new one started, as on a reload of the page.   *)
(***************************************************************************)
\* PersistClosed that writes the item only while there is none
PersistClosedFirstOnly ==
  /\ persistDue
  /\ persistDue' = FALSE
  /\ IF stored.present THEN stored' = stored
     ELSE \E arr \in ArrayFrom(closedChats) : stored' = Item(JsonStringify(arr))
  /\ UNCHANGED <<loaded, viewport, hook>>
  /\ UNCHANGED <<reactVars, effectVars, asyncVars, dbVars, histVars>>

\* localStorage.setItem('closedChats', JSON.stringify(Array.from(closedChats)))
PersistClosed ==
  /\ persistDue
  /\ persistDue' = FALSE
  /\ \E arr \in ArrayFrom(closedChats) : stored' = Item(JsonStringify(arr))
  /\ UNCHANGED <<loaded, viewport, hook>>
  /\ UNCHANGED <<reactVars, effectVars, asyncVars, dbVars, histVars>>

\* The cleanup of the running effect, then the initial state of a new
\* provider.  useAuth() yields the user again or, at first, none; a
\* suspended handler of the discarded provider cannot change the state of
\* the new one; a markAsRead past its local update goes on or is dropped.
Remount ==
  /\ chatWindows' = <<>>
  /\ closedChats' = LoadClosed(stored)
  /\ loaded' = LoadClosed(stored)
  /\ lastSeenMessageIds' = [c \in Chats |-> 0]
  /\ user' \in {None, user}
  /\ effectDue' = TRUE
  /\ persistDue' = TRUE
  /\ closure' = [user |-> None, windowIds |-> {}, closedChats |-> {},
                 lastSeenMessageIds |-> [c \in Chats |-> 0]]
  /\ chatsLive' = FALSE
  /\ chatsDue' = FALSE
  /\ subs' = [c \in Chats |-> 0]
  /\ due' = [c \in Chats |-> 0]
  /\ pending' = [k \in PendingKeys |-> 0]
  /\ reading' \in SUBSET reading
  /\ applied' = [c \in Chats |-> 0]
  /\ readHist' = [u \in Peers |-> "none"]
  /\ hook' = NoCall
  /\ UNCHANGED <<dbVars, suppressed, stored, viewport>>

\* A component calls useChat(), inside the provider or outside of any
CallUseChat(inside) ==
  /\ hook' = [where |-> IF inside THEN "inside" ELSE "outside",
              result |-> UseChat(IF inside THEN ProviderValue ELSE NullContext)]
  /\ UNCHANGED <<stored, persistDue, loaded, viewport>>
  /\ UNCHANGED <<reactVars, effectVars, asyncVars, dbVars, histVars>>

(***************************************************************************)
(* Specification Spec: the registry fed by the two live feeds, with        *)
(* openChat and closeChat called at any time.                              *)
(***************************************************************************)
Next ==
  \/ SignIn
  \/ RunEffect
  \/ OnChatsSnapshot
  \/ \E c \in Chats : OnMessagesSnapshot(c)
  \/ \E k \in PendingKeys : \E res \in LookupResults(k[1]) : ProfileResolved(k, res)
  \/ \E u \in Peers : OpenChat(u)
  \/ \E u \in Peers : \E w \in TypingWrites : CloseChat(u, w)
  \/ \E p \in Peers : \E s \in {p, Me} : NewMessage(p, s)

Spec == Init /\ [][Next]_vars

(***************************************************************************)
(* Specification SpecOps: the operations of the context applied to window  *)
(* lists the registry can hold, signed in or not, with or without typing   *)
(* status and unread messages in the database.                             *)
(***************************************************************************)
SampleProfiles(u) == {CallerProfile(u), ProfileFromMessage(u)}
SampleWindow(n) ==
  {[id |-> u, user |-> pr, isMinimized |-> mn, position |-> DefaultPosition(n),
    unreadCount |-> ur] :
     u \in Peers, pr \in UNION {SampleProfiles(v) : v \in Peers},
     mn \in BOOLEAN, ur \in {0, MaxUnread}}
SampleWindows(n) == {w \in SampleWindow(n) : w.user.uid = w.id}
SampleLists ==
  {<<>>} \cup {<<w>> : w \in SampleWindows(0)}
         \cup {<<w1, w2>> : w1 \in SampleWindows(0), w2 \in SampleWindows(1)}

InitOps ==
  /\ viewport = [innerWidth |-> InnerWidth, innerHeight |-> InnerHeight]
  /\ user \in {None, Me}
  /\ chatWindows \in {l \in SampleLists : Len(l) <= MaxWindows}
  /\ closedChats = {}
  /\ lastSeenMessageIds = [c \in Chats |-> 0]
  /\ effectDue = TRUE
  /\ closure = [user |-> None, windowIds |-> {}, closedChats |-> {},
                lastSeenMessageIds |-> [c \in Chats |-> 0]]
  /\ chatsLive = FALSE
  /\ chatsDue = FALSE
  /\ subs = [c \in Chats |-> 0]
  /\ due = [c \in Chats |-> 0]
  /\ pending = [k \in PendingKeys |-> 0]
  /\ reading = {}
  /\ convs = Chats
  /\ latest = [c \in Chats |-> [id |-> 0, senderId |-> None]]
  /\ unreadRemote \in {[c \in Chats |-> b] : b \in BOOLEAN}
  /\ typing \in {{}, Chats}
  /\ suppressed = closedChats \ WindowIds(chatWindows)
  /\ applied = [c \in Chats |-> 0]
  /\ readHist = [u \in Peers |-> "none"]
  /\ stored = NoItem
  /\ persistDue = TRUE
  /\ loaded = {}
  /\ hook = NoCall

NextOps ==
  \/ \E u \in Peers : OpenChat(u)
  \/ \E u \in Peers : \E w \in TypingWrites : CloseChat(u, w)
  \/ \E u \in Peers : MinimizeChat(u)
  \/ \E u \in Peers : \E p \in Positions : UpdatePosition(u, p)
  \/ \E u \in Peers : MarkAsRead(u)
  \/ \E u \in Peers : \E r \in RemoteResults : MarkAsReadRemote(u, r)

SpecOps == InitOps /\ [][NextOps]_vars

(***************************************************************************)
(* Specification SpecSession: the life of the subscriptions.  The user     *)
(* signs in and out, the provider is discarded and started again, and the  *)
(* two feeds deliver; no operation of the context is called.               *)
(***************************************************************************)
NextSession ==
  \/ SignIn
  \/ SignOut
  \/ Remount
  \/ RunEffect
  \/ OnChatsSnapshot
  \/ \E c \in Chats : OnMessagesSnapshot(c)
  \/ \E k \in PendingKeys : \E res \in LookupResults(k[1]) : ProfileResolved(k, res)
  \/ \E p \in Peers : \E s \in {p, Me} : NewMessage(p, s)
  \/ \E p \in Peers : PeerTyping(p)

SpecSession == Init /\ [][NextSession]_vars

(***************************************************************************)
(* Specification SpecStore: the closed set and its durable copy.  Users    *)
(* are closed and opened, the persist effect runs, the provider is         *)
(* discarded and started again, and the conversation set is subscribed.    *)
(***************************************************************************)
NextStore ==
  \/ SignIn
  \/ Remount
  \/ PersistClosed
  \/ RunEffect
  \/ OnChatsSnapshot
  \/ \E u \in Peers : OpenChat(u)
  \/ \E u \in Peers : \E w \in TypingWrites : CloseChat(u, w)
  \/ \E p \in Peers : \E s \in {p, Me} : NewMessage(p, s)

SpecStore == Init /\ [][NextStore]_vars

(***************************************************************************)
(* Specification SpecPanel: a component that uses the registry through     *)
(* useChat: it opens, closes, minimizes and moves windows, starting with   *)
(* no window.                                                              *)
(***************************************************************************)
NextPanel ==
  \/ \E inside \in BOOLEAN : CallUseChat(inside)
  \/ \E u \in Peers : OpenChat(u)
  \/ \E u \in Peers : \E w \in TypingWrites : CloseChat(u, w)
  \/ \E u \in Peers : MinimizeChat(u)
  \/ \E u \in Peers : \E p \in Positions : UpdatePosition(u, p)

SpecPanel == Init /\ [][NextPanel]_vars

(***************************************************************************)
(* Specification SpecLayout: the registry of Spec in a viewport in which   *)
(* no default position of the window lists explored is floored at 0.       *)
(***************************************************************************)
InitLayout ==
  /\ viewport = [innerWidth |-> WideInnerWidth, innerHeight |-> WideInnerHeight]
  /\ user = None
  /\ chatWindows = <<>>
  /\ closedChats = {}
  /\ lastSeenMessageIds = [c \in Chats |-> 0]
  /\ effectDue = TRUE
  /\ closure = [user |-> None, windowIds |-> {}, closedChats |-> {},
                lastSeenMessageIds |-> [c \in Chats |-> 0]]
  /\ chatsLive = FALSE
  /\ chatsDue = FALSE
  /\ subs = [c \in Chats |-> 0]
  /\ due = [c \in Chats |-> 0]
  /\ pending = [k \in PendingKeys |-> 0]
  /\ reading = {}
  /\ convs = {}
  /\ latest = [c \in Chats |-> [id |-> 0, senderId |-> None]]
  /\ unreadRemote = [c \in Chats |-> FALSE]
  /\ typing = {}
  /\ suppressed = {}
  /\ applied = [c \in Chats |-> 0]
  /\ readHist = [u \in Peers |-> "none"]
  /\ stored = NoItem
  /\ persistDue = TRUE
  /\ loaded = {}
  /\ hook = NoCall

SpecLayout == InitLayout /\ [][Next]_vars

(***************************************************************************)
(* Properties.                                                             *)
(***************************************************************************)
PeerOf(c) == OtherParticipant(c, Me)

\* C1: in every reachable state the window list holds at most one window
\* per counterpart user id.
C1_AtMostOneWindowPerUser ==
  \A u \in Peers : Cardinality(WindowsOf(chatWindows, u)) <= 1

\* C2: a user closed with closeChat and not opened again with openChat has
\* no window, whatever message deliveries and lookup completions happen.
C2_ClosedStaysClosed ==
  \A u \in suppressed : ~HasWindow(chatWindows, u)

\* Nothing is left to run: the effect is up to date, every snapshot is
\* delivered, no handler is suspended.
Quiescent ==
  /\ ~effectDue
  /\ ~chatsDue
  /\ \A c \in Chats : due[c] = 0
  /\ PendingCount = 0

\* C3: once a closed user has been opened again with openChat, inbound
\* messages of that user are processed again: when a user is signed in and
\* nothing is left to run, the latest message of every conversation whose
\* counterpart is not under a closeChat suppression, if the counterpart sent
\* it, is the one recorded in lastSeenMessageIds.
C3_ReopenedIsProcessed ==
  (user # None /\ Quiescent) =>
    \A c \in convs :
      (PeerOf(c) \notin suppressed /\ latest[c].senderId = PeerOf(c))
        => lastSeenMessageIds[c] = latest[c].id

\* C4: deliveries that carry the same latest message id change the window
\* list at most once (one window created or one unreadCount increment).
C4_SameLatestAppliedOnce ==
  \A c \in Chats : applied[c] <= 1

\* C5: a handler whose message was unprocessed at delivery, from a sender not
\* closed and without window, ends with exactly one window of the sender,
\* the new one, minimized and with unreadCount 1, the windows that existed
\* being unchanged.
C5_AutoCreateExactlyOne ==
  [][\A k \in PendingKeys : \A res \in LookupResults(k[1]) :
       (k[3] /\ pending'[k] < pending[k] /\ ProfileResolved(k, res)) =>
          /\ Len(chatWindows') = Len(chatWindows) + 1
          /\ SubSeq(chatWindows', 1, Len(chatWindows)) = chatWindows
          /\ WindowsOf(chatWindows', k[1]) = {Len(chatWindows')}
          /\ chatWindows'[Len(chatWindows')].isMinimized
          /\ chatWindows'[Len(chatWindows')].unreadCount = 1]_vars

\* C6: a delivery changes the unread count of the sender's existing window
\* only for a latest message that has not been applied yet, and then by
\* exactly 1, leaving isMinimized, position and every other window as they
\* were.
C6_UnreadPlusOne ==
  [][\A c \in Chats :
       (OnMessagesSnapshot(c) /\ chatWindows' # chatWindows) =>
          /\ applied[c] = 0
          /\ Len(chatWindows') = Len(chatWindows)
          /\ \A i \in 1..Len(chatWindows) :
               IF chatWindows[i].user.uid = latest[c].senderId
               THEN chatWindows'[i] =
                      [chatWindows[i] EXCEPT !.unreadCount = chatWindows[i].unreadCount + 1]
               ELSE chatWindows'[i] = chatWindows[i]]_vars

\* C7 (as claimed): openChat is idempotent and leaves exactly one window of
\* the user, not minimized and with unreadCount 0; a window of the user that
\* existed keeps its position, and the windows of other users are unchanged.
C7_OpenChatIdempotent ==
  [][\A u \in Peers :
       OpenChat(u) =>
          /\ OpenChatUpdate(chatWindows', CallerProfile(u)) = chatWindows'
          /\ Cardinality(WindowsOf(chatWindows', u)) = 1
          /\ \A i \in WindowsOf(chatWindows', u) :
                ~chatWindows'[i].isMinimized /\ chatWindows'[i].unreadCount = 0
          /\ \A i \in 1..Len(chatWindows) :
                /\ chatWindows'[i].position = chatWindows[i].position
                /\ chatWindows[i].user.uid # u => chatWindows'[i] = chatWindows[i]]_vars

\* The windows of ws that are not of user u
WindowsOfOthers(ws, u) == {ws[i] : i \in 1..Len(ws) \ WindowsOf(ws, u)}

\* C8: closeChat(U) leaves no window of U, U in closedChats and the windows
\* of the other users as they were, whether the write that clears the typing
\* status succeeds, fails or is not issued because no user is signed in.
C8_CloseChatAlwaysCloses ==
  [][\A u \in Peers : \A w \in TypingWrites :
       CloseChat(u, w) =>
          /\ ~HasWindow(chatWindows', u)
          /\ u \in closedChats'
          /\ Len(chatWindows') = Len(chatWindows) - Cardinality(WindowsOf(chatWindows, u))
          /\ WindowsOfOthers(chatWindows', u) = WindowsOfOthers(chatWindows, u)]_vars

\* closeChat has closed a's window next to z's, signed in, and the write
\* failed: the typing status of the conversation with a is still set.
C8_Witness ==
  /\ user = Me
  /\ "a" \in closedChats
  /\ ChatId(Me, "a") \in typing
  /\ ~HasWindow(chatWindows, "a")
  /\ HasWindow(chatWindows, "z")

\* C9: markAsRead(U) sets the unreadCount of U's window to 0 in the step
\* that precedes its remote part, and the remote part, whether it succeeds,
\* fails or is skipped, leaves the window list as it is.
C9_LocalZeroNotRolledBack ==
  [][/\ \A u \in Peers :
          MarkAsRead(u) =>
             /\ u \in reading'
             /\ \A i \in WindowsOf(chatWindows', u) : chatWindows'[i].unreadCount = 0
             /\ Len(chatWindows') = Len(chatWindows)
     /\ \A u \in Peers : \A r \in RemoteResults :
          MarkAsReadRemote(u, r) => chatWindows' = chatWindows]_vars

\* markAsRead has set a positive unreadCount to 0, its remote part has
\* failed, and the count is still 0.
C9_Witness ==
  \E u \in Peers :
    /\ readHist[u] = "kept"
    /\ HasWindow(chatWindows, u)
    /\ \A i \in WindowsOf(chatWindows, u) : chatWindows[i].unreadCount = 0

\* C10: when the profile lookup finds no document or fails, the handler
\* still appends the window of the sender, with a profile made of the
\* sender name and photo of the message and isVerified = false,
\* role = 'user', status = 'active'.
C10_LookupNeverAborts ==
  [][\A k \in PendingKeys : \A res \in LookupResults(k[1]) :
       (pending'[k] < pending[k] /\ res.kind # "found" /\ ProfileResolved(k, res)) =>
          /\ Len(chatWindows') = Len(chatWindows) + 1
          /\ LET w == chatWindows'[Len(chatWindows')] IN
               /\ w.id = k[1]
               /\ w.user.uid = k[1]
               /\ w.user.displayName = SenderName(k[1])
               /\ w.user.photoURL = SenderPhotoURL(k[1])
               /\ w.user.isVerified = FALSE
               /\ w.user.role = "user"
               /\ w.user.status = "active"]_vars

\* A window stands whose profile is the one built from the message alone.
C10_Witness ==
  \E i \in 1..Len(chatWindows) :
    /\ chatWindows[i].user = ProfileFromMessage(chatWindows[i].id)
    /\ chatWindows[i].isMinimized
    /\ chatWindows[i].unreadCount = 1

\* C11: when the subscription effect is cleaned up (the effect re-runs after
\* the authenticated user changed, or the provider is discarded), every
\* message listener is released, also those a later conversation-set
\* snapshot opened, and the conversation-set listener is released: the
\* only listener alive afterwards is the one a new run opens for a
\* signed-in user.
C11_TeardownReleasesAll ==
  [][((effectDue /\ ~effectDue') \/ Remount) =>
        /\ \A c \in Chats : subs'[c] = 0 /\ due'[c] = 0
        /\ chatsLive' => (user' # None /\ effectDue /\ ~effectDue')
        /\ chatsDue' => chatsLive']_vars

\* The user signed out and the effect ran again while two listeners of one
\* conversation, the second opened by a later conversation-set snapshot,
\* had each started a handler: no listener is left.
C11_Witness ==
  /\ user = None
  /\ ~effectDue
  /\ ~chatsLive
  /\ \A c \in Chats : subs[c] = 0
  /\ \E p \in Peers : \E m \in 1..MaxMsg :
       pending[<<p, m, TRUE>>] > 0 /\ pending[<<p, m, FALSE>>] > 0

\* C12: a window added to a list of k windows, by openChat or by an inbound
\* message, gets x = max(0, innerWidth - 320 - 20*k) and
\* y = max(0, innerHeight - 400 - 20*k), no coordinate is negative, and the
\* windows already in the list keep their positions; so from an empty list
\* the k-th window opened is 20 less in both axes than the one before it
\* until it is floored at 0.
C12_CascadePosition ==
  [][Len(chatWindows') = Len(chatWindows) + 1 =>
       LET k == Len(chatWindows)
           w == chatWindows'[k + 1]
           x == viewport.innerWidth - 320 - 20 * k
           y == viewport.innerHeight - 400 - 20 * k
       IN /\ w.position.x = (IF x > 0 THEN x ELSE 0)
          /\ w.position.y = (IF y > 0 THEN y ELSE 0)
          /\ w.position.x >= 0 /\ w.position.y >= 0
          /\ \A i \in 1..k : chatWindows'[i].position = chatWindows[i].position
          /\ k > 0 /\ chatWindows[k].position = DefaultPosition(k - 1) =>
               /\ w.position.x \in {chatWindows[k].position.x - 20, 0}
               /\ w.position.y \in {chatWindows[k].position.y - 20, 0}]_vars

\* Two windows of distinct users, the first opened by openChat into the
\* empty list, the second created by an inbound message: x went down by 20
\* and y was floored at 0.
C12_Witness ==
  /\ Len(chatWindows) = 2
  /\ chatWindows[1].user.uid # chatWindows[2].user.uid
  /\ chatWindows[1].user = CallerProfile(chatWindows[1].user.uid)
  /\ chatWindows[2].user # CallerProfile(chatWindows[2].user.uid)
  /\ chatWindows[1].position.x = viewport.innerWidth - 320
  /\ chatWindows[1].position.y = viewport.innerHeight - 400
  /\ chatWindows[2].position.x = chatWindows[1].position.x - 20
  /\ chatWindows[2].position.x > 0
  /\ viewport.innerHeight - 400 - 20 < 0
  /\ chatWindows[2].position.y = 0

\* C13: once the persist effect has run after a change of closedChats, the
\* item stored under 'closedChats' is the JSON array of exactly the members
\* of the current set; a provider started then initialises closedChats
\* with that same set, and when its subscription effect is up to date no
\* message listener exists for a conversation with a user of the set.
C13_ClosedSetDurable ==
  [][/\ ~persistDue' =>
          /\ stored'.present
          /\ Len(stored'.text) = Cardinality(closedChats') + 2
          /\ stored'.text[1] = "[" /\ stored'.text[Len(stored'.text)] = "]"
          /\ {stored'.text[i] : i \in 2..(Len(stored'.text) - 1)} = closedChats'
     /\ (~persistDue /\ Remount) => closedChats' = closedChats
     /\ ~effectDue' => \A u \in closedChats' : subs'[ChatId(Me, u)] = 0]_vars

\* A provider started with a closed set loaded from the stored item, which
\* still holds a loaded user whose conversation exists: the conversation
\* set has been delivered and that conversation has no listener.
C13_Witness ==
  /\ loaded # {}
  /\ stored.present
  /\ ~effectDue /\ chatsLive /\ ~chatsDue
  /\ \E u \in loaded :
       /\ u \in closedChats
       /\ ChatId(Me, u) \in convs
       /\ subs[ChatId(Me, u)] = 0
       /\ \E c \in Chats : subs[c] > 0

\* C14: the delivery of a message-stream snapshot whose latest message was
\* sent by the signed-in user changes neither the window list (no window,
\* no unreadCount) nor the cursor lastSeenMessageIds nor closedChats, and
\* starts no profile lookup that would create a window later.
C14_OwnMessageIgnored ==
  [][\A c \in Chats :
       (/\ due'[c] < due[c] /\ subs'[c] = subs[c]
        /\ user # None /\ latest[c].senderId = user) =>
          /\ chatWindows' = chatWindows
          /\ lastSeenMessageIds' = lastSeenMessageIds
          /\ closedChats' = closedChats
          /\ pending' = pending]_vars

\* Every live listener of a conversation has delivered its latest message,
\* sent by the signed-in user and never recorded in the cursor; there is no
\* window and no lookup in flight.
C14_Witness ==
  \E c \in Chats :
    /\ subs[c] > 0 /\ due[c] = 0
    /\ user = Me /\ latest[c].senderId = Me
    /\ lastSeenMessageIds[c] # latest[c].id
    /\ chatWindows = <<>>
    /\ PendingCount = 0

\* C15: minimizeChat(U) negates isMinimized of the windows of U and leaves
\* every other field and window as it was, so that a second call restores
\* the list; updatePosition(U, p) sets the position of the windows of U to
\* p and leaves everything else; without a window of U both leave the list
\* as it was; neither changes the length of the list or closedChats.
C15_MinimizeAndMoveFrame ==
  [][\A u \in Peers :
       /\ MinimizeChat(u) =>
            /\ Len(chatWindows') = Len(chatWindows)
            /\ \A i \in 1..Len(chatWindows) :
                 chatWindows'[i] =
                   IF chatWindows[i].user.uid = u
                   THEN [chatWindows[i] EXCEPT !.isMinimized = ~chatWindows[i].isMinimized]
                   ELSE chatWindows[i]
            /\ MinimizeUpdate(chatWindows', u) = chatWindows
            /\ ~HasWindow(chatWindows, u) => chatWindows' = chatWindows
            /\ closedChats' = closedChats
       /\ \A p \in Positions :
            UpdatePosition(u, p) =>
              /\ Len(chatWindows') = Len(chatWindows)
              /\ \A i \in 1..Len(chatWindows) :
                   chatWindows'[i] =
                     IF chatWindows[i].user.uid = u
                     THEN [chatWindows[i] EXCEPT !.position = p]
                     ELSE chatWindows[i]
              /\ ~HasWindow(chatWindows, u) => chatWindows' = chatWindows
              /\ closedChats' = closedChats]_vars

\* A window opened by openChat that has since been minimized and moved,
\* beside a window of another user that is as openChat made it, and a
\* closed set that is not empty.
C15_Witness ==
  /\ Len(chatWindows) = 2
  /\ closedChats # {}
  /\ \E i, j \in 1..2 :
       /\ chatWindows[i].user.uid # chatWindows[j].user.uid
       /\ chatWindows[i].isMinimized
       /\ chatWindows[i].position \in Positions
       /\ ~chatWindows[j].isMinimized
       /\ chatWindows[j].position = DefaultPosition(j - 1)

\* C16: a call of useChat outside a provider throws the error 'useChat must
\* be used within a ChatProvider' and yields no window list and no
\* operation; a call inside a provider does not throw and yields the
\* current window list and the five operations openChat, closeChat,
\* minimizeChat, updatePosition and markAsRead.
C16_UseChatNeedsProvider ==
  [][hook' # hook =>
       IF hook'.where = "outside"
       THEN /\ hook'.result.threw
            /\ hook'.result.message = "useChat must be used within a ChatProvider"
            /\ hook'.result.value.isNull
            /\ hook'.result.value.operations = {}
       ELSE /\ hook'.where = "inside"
            /\ ~hook'.result.threw
            /\ ~hook'.result.value.isNull
            /\ hook'.result.value.chatWindows = chatWindows
            /\ hook'.result.value.operations =
                 {"openChat", "closeChat", "minimizeChat", "updatePosition", "markAsRead"}]_vars

\* The last call of useChat was made outside the provider and threw, while
\* the provider held two windows.
C16_Witness ==
  /\ hook.where = "outside"
  /\ hook.result.threw
  /\ Len(chatWindows) = 2

\* C17: in every reachable state each conversation has at most one live
\* message listener.
C17_OneListenerPerConversation ==
  \A c \in Chats : subs[c] <= 1

\* C18: once the user has signed out and the cleanup of the subscription
\* effect has released every listener, no step adds a window to the list
\* or changes a window of it.
C18_NoChangeAfterTeardown ==
  [][(/\ user = None /\ ~effectDue /\ ~chatsLive
      /\ \A c \in Chats : subs[c] = 0) =>
        /\ Len(chatWindows') <= Len(chatWindows)
        /\ Len(chatWindows') = Len(chatWindows) => chatWindows' = chatWindows]_vars

\* C19: while no window of the list has a coordinate floored at 0, no two
\* windows of the list have the same position (no window is ever moved in
\* SpecLayout, so every position is the default the layout policy gave).
C19_DefaultPositionsDistinct ==
  (\A i \in 1..Len(chatWindows) :
      chatWindows[i].position.x > 0 /\ chatWindows[i].position.y > 0) =>
    \A i, j \in 1..Len(chatWindows) :
       i # j => chatWindows[i].position # chatWindows[j].position

====
